---- MODULE Spec2Model ----
(***************************************************************************)
(* Word guessing game (word_guessing_game.py): the feedback engine         *)
(* match_check, the constraint filter check_word_vs_guess_and_hints, the   *)
(* reducer reduce_list, and the game loop game_routine driven by main.     *)
(*                                                                         *)
(* A Python str is a sequence of one-character strings.  Python indexes    *)
(* from 0, the sequences here from 1: Python's index k is position k + 1.  *)
(***************************************************************************)
EXTENDS Integers, Sequences, FiniteSets, TLC

(* ------------------------------ bounds --------------------------------- *)
\* longest word handed to the library functions
MaxLen == 3
\* longest word list handed to reduce_list
MaxList == 3
\* largest dictionary of an auto solver session
MaxDict == 3
\* largest dictionary of a session with a human player
MaxHumanDict == 2
\* scored guesses a human player makes in one round before the model stops
MaxTries == 2
\* rounds a human player plays before the model stops
MaxRounds == 2

(* ----------------------------- alphabets ------------------------------- *)
\* the uppercase letters words are made of
Letters == {"A", "B"}
\* the three hint symbols
HintChars == {"!", "?", "_"}
\* a character that is no hint symbol
BadHintChar == "x"

Range(s) == {s[i] : i \in 1..Len(s)}
Min(a, b) == IF a < b THEN a ELSE b

\* all strings of length n over the character set S
StringsOfLen(S, n) == [1..n -> S]
\* all strings of length 1..n over S
StringsUpTo(S, n) == UNION {StringsOfLen(S, k) : k \in 1..n}
\* all lists of at most n elements of S
ListsUpTo(S, n) == UNION {[1..k -> S] : k \in 0..n}

(* --------------------------- replace_char ------------------------------ *)
\* in_str[:index] + replacement + in_str[index + 1:], index a position 1..
replace_char(replacement, in_str, index) ==
    SubSeq(in_str, 1, Min(index - 1, Len(in_str)))
        \o <<replacement>>
        \o SubSeq(in_str, index + 1, Len(in_str))

\* str.index(letter): the first position holding letter (letter occurs)
StrIndex(s, letter) == CHOOSE i \in 1..Len(s) :
    s[i] = letter /\ \A j \in 1..(i - 1) : s[j] # letter

\* str.replace(old, new, 1): the first occurrence of old replaced, if any
StrReplaceFirst(s, old, new) ==
    IF old \in Range(s) THEN replace_char(new, s, StrIndex(s, old)) ELSE s

(* ---------------------------- match_check ------------------------------ *)
\* first loop of match_check: `it` is the string enumerate() walks (the
\* guess as passed in), g and c the rebound guess and correct.
RECURSIVE ExactPass(_, _, _, _)
ExactPass(it, g, c, i) ==
    IF i > Len(it) THEN [err |-> "none", guess |-> g, correct |-> c]
    ELSE IF i > Len(c) THEN [err |-> "IndexError", guess |-> g, correct |-> c]
    ELSE IF it[i] = c[i]
         THEN ExactPass(it, replace_char("!", g, i), replace_char("_", c, i), i + 1)
         ELSE ExactPass(it, g, c, i + 1)

\* PresencePass with the consumed letter left in correct
RECURSIVE PresencePassNoConsume(_, _, _, _)
PresencePassNoConsume(it, g, c, i) ==
    IF i > Len(it) THEN g
    ELSE IF it[i] \in Range(c)
         THEN PresencePassNoConsume(it, replace_char("?", g, i), c, i + 1)
    ELSE IF it[i] # "!"
         THEN PresencePassNoConsume(it, replace_char("_", g, i), c, i + 1)
         ELSE PresencePassNoConsume(it, g, c, i + 1)

\* second loop of match_check: `it` is the guess as the first loop left it
RECURSIVE PresencePass(_, _, _, _)
PresencePass(it, g, c, i) ==
    IF i > Len(it) THEN g
    ELSE IF it[i] \in Range(c)
         THEN PresencePass(it, replace_char("?", g, i),
                           replace_char("_", c, StrIndex(c, it[i])), i + 1)
    ELSE IF it[i] # "!"
         THEN PresencePass(it, replace_char("_", g, i), c, i + 1)
         ELSE PresencePass(it, g, c, i + 1)

AllBang(s) == \A i \in 1..Len(s) : s[i] = "!"

\* match_check without the early return of the full match
match_check_no_early_return(guess, correct) ==
    LET p == ExactPass(guess, guess, correct, 1) IN
    IF p.err # "none" THEN [err |-> p.err, state |-> FALSE, hints |-> <<>>]
    ELSE [err |-> "none", state |-> FALSE,
          hints |-> PresencePass(p.guess, p.guess, p.correct, 1)]

\* match_check(guess, correct): err is "none" when a tuple (state, hints)
\* is returned, else the exception raised
match_check(guess, correct) ==
    LET p == ExactPass(guess, guess, correct, 1) IN
    IF p.err # "none" THEN [err |-> p.err, state |-> FALSE, hints |-> <<>>]
    ELSE IF AllBang(p.guess) THEN [err |-> "none", state |-> TRUE, hints |-> p.guess]
    ELSE [err |-> "none", state |-> FALSE,
          hints |-> PresencePass(p.guess, p.guess, p.correct, 1)]

(* ------------------- check_word_vs_guess_and_hints --------------------- *)
\* DefinitePass that leaves a letter matched by '!' in the word
RECURSIVE DefinitePassKeepsMatched(_, _, _, _)
DefinitePassKeepsMatched(word, guess, hints, i) ==
    IF i > Len(hints) THEN [ret |-> "go on", word |-> word]
    ELSE IF hints[i] \notin HintChars THEN [ret |-> "ValueError", word |-> word]
    ELSE IF hints[i] = "!"
         THEN IF i > Len(guess) \/ i > Len(word)
                   THEN [ret |-> "IndexError", word |-> word]
              ELSE IF guess[i] = word[i]
                   THEN DefinitePassKeepsMatched(word, guess, hints, i + 1)
                   ELSE [ret |-> "False", word |-> word]
    ELSE IF hints[i] = "?"
         THEN IF i > Len(guess) \/ i > Len(word)
                   THEN [ret |-> "IndexError", word |-> word]
              ELSE IF guess[i] = word[i]
                   THEN [ret |-> "False", word |-> word]
                   ELSE DefinitePassKeepsMatched(word, guess, hints, i + 1)
    ELSE DefinitePassKeepsMatched(word, guess, hints, i + 1)

\* first loop ("definite cases"); ret is "go on" when the loop ran to its end
RECURSIVE DefinitePass(_, _, _, _)
DefinitePass(word, guess, hints, i) ==
    IF i > Len(hints) THEN [ret |-> "go on", word |-> word]
    ELSE IF hints[i] \notin HintChars THEN [ret |-> "ValueError", word |-> word]
    ELSE IF hints[i] = "!"
         THEN IF i > Len(guess) \/ i > Len(word)
                   THEN [ret |-> "IndexError", word |-> word]
              ELSE IF guess[i] = word[i]
                   THEN DefinitePass(replace_char("*", word, i), guess, hints, i + 1)
                   ELSE [ret |-> "False", word |-> word]
    ELSE IF hints[i] = "?"
         THEN IF i > Len(guess) \/ i > Len(word)
                   THEN [ret |-> "IndexError", word |-> word]
              ELSE IF guess[i] = word[i]
                   THEN [ret |-> "False", word |-> word]
                   ELSE DefinitePass(word, guess, hints, i + 1)
    ELSE DefinitePass(word, guess, hints, i + 1)

\* SpecialPass in which a '?' position leaves its letter in the word
RECURSIVE SpecialPassNoConsume(_, _, _, _)
SpecialPassNoConsume(word, guess, hints, i) ==
    IF i > Len(hints) THEN "True"
    ELSE IF hints[i] = "?"
         THEN IF i > Len(guess) THEN "IndexError"
              ELSE IF guess[i] \in Range(word)
                   THEN SpecialPassNoConsume(word, guess, hints, i + 1)
                   ELSE "False"
    ELSE IF hints[i] = "_"
         THEN IF i > Len(guess) THEN "IndexError"
              ELSE IF guess[i] \in Range(word) THEN "False"
              ELSE SpecialPassNoConsume(word, guess, hints, i + 1)
    ELSE SpecialPassNoConsume(word, guess, hints, i + 1)

\* SpecialPass that lets a '_' position pass unchecked
RECURSIVE SpecialPassSkipsAbsent(_, _, _, _)
SpecialPassSkipsAbsent(word, guess, hints, i) ==
    IF i > Len(hints) THEN "True"
    ELSE IF hints[i] = "?"
         THEN IF i > Len(guess) THEN "IndexError"
              ELSE IF guess[i] \in Range(word)
                   THEN SpecialPassSkipsAbsent(StrReplaceFirst(word, guess[i], "*"),
                                               guess, hints, i + 1)
                   ELSE "False"
    ELSE SpecialPassSkipsAbsent(word, guess, hints, i + 1)

\* second loop ("more special cases")
RECURSIVE SpecialPass(_, _, _, _)
SpecialPass(word, guess, hints, i) ==
    IF i > Len(hints) THEN "True"
    ELSE IF hints[i] = "?"
         THEN IF i > Len(guess) THEN "IndexError"
              ELSE IF guess[i] \in Range(word)
                   THEN SpecialPass(StrReplaceFirst(word, guess[i], "*"),
                                    guess, hints, i + 1)
                   ELSE "False"
    ELSE IF hints[i] = "_"
         THEN IF i > Len(guess) THEN "IndexError"
              ELSE IF guess[i] \in Range(word) THEN "False"
              ELSE SpecialPass(word, guess, hints, i + 1)
    ELSE SpecialPass(word, guess, hints, i + 1)

\* the filter with the second loop run on the word as passed in, the
\* letters matched by '!' not sorted out
check_word_matches_not_sorted_out(word, guess, hints) ==
    LET p == DefinitePass(word, guess, hints, 1) IN
    IF p.ret # "go on" THEN p.ret ELSE SpecialPass(word, guess, hints, 1)

\* "True" / "False" when a bool is returned, else the exception raised
check_word_vs_guess_and_hints(word, guess, hints) ==
    LET p == DefinitePass(word, guess, hints, 1) IN
    IF p.ret # "go on" THEN p.ret ELSE SpecialPass(p.word, guess, hints, 1)

(* ---------------------------- reduce_list ------------------------------ *)
\* the list comprehension, element by element; an exception of the filter
\* ends it
RECURSIVE Comprehension(_, _, _, _, _)
Comprehension(in_list, guess, hints, i, acc) ==
    IF i > Len(in_list) THEN [err |-> "none", out |-> acc]
    ELSE LET r == check_word_vs_guess_and_hints(in_list[i], guess, hints) IN
         IF r = "True" THEN Comprehension(in_list, guess, hints, i + 1,
                                          Append(acc, in_list[i]))
         ELSE IF r = "False" THEN Comprehension(in_list, guess, hints, i + 1, acc)
         ELSE [err |-> r, out |-> <<>>]

\* reduce_list that filters the list object it was given in place
reduce_list_in_place(in_list, guess, hints) ==
    LET c == Comprehension(in_list, guess, hints, 1, <<>>) IN
    [err |-> c.err, out |-> c.out, arg |-> c.out]

\* reduce_list that starts at the second element of in_list
reduce_list_skips_first(in_list, guess, hints) ==
    LET c == Comprehension(in_list, guess, hints, 2, <<>>) IN
    [err |-> c.err, out |-> c.out, arg |-> in_list]

\* reduce_list(in_list, guess, hints): out is the list returned (a new
\* list object), arg the list object passed in as the call leaves it
reduce_list(in_list, guess, hints) ==
    LET c == Comprehension(in_list, guess, hints, 1, <<>>) IN
    [err |-> c.err, out |-> c.out, arg |-> in_list]

(* ------------------------- find_words_in_dict -------------------------- *)
\* str.upper() on the characters the model uses
UpperChar(c) == IF c = "a" THEN "A" ELSE IF c = "b" THEN "B" ELSE c
Upper(s) == [i \in 1..Len(s) |-> UpperChar(s[i])]

\* the loop over guesses_and_hints, `words` the dictionary as read: ret is
\* "None" after "No words found ...", "words" when the remaining words are
\* returned, else the exception raised
RECURSIVE find_words_in_dict(_, _)
find_words_in_dict(guesses_and_hints, wordlist) ==
    IF guesses_and_hints = <<>> THEN [ret |-> "words", words |-> wordlist]
    ELSE LET guess_hint == Head(guesses_and_hints)
             r == reduce_list(wordlist, Upper(guess_hint[1]), guess_hint[2])
         IN  IF r.err # "none" THEN [ret |-> r.err, words |-> <<>>]
             ELSE IF r.out = <<>> THEN [ret |-> "None", words |-> <<>>]
             ELSE find_words_in_dict(Tail(guesses_and_hints), r.out)

(* ------------------------------- state --------------------------------- *)
VARIABLES
    \* direct calls of the library functions
    fn,          \* which function is exercised: "score", "filter", "reduce"
    in_word,     \* the word / target / candidate argument
    in_guess,    \* the guess argument
    in_hints,    \* the hints argument
    in_list,     \* the word list argument
    ret,         \* what the first call returned
    ret2,        \* what the follow-up call returned
    fpc,         \* "call", "returned", "again", "found"
    \* main
    dictionary,        \* main's `words`: the list object read from the file
    allow_wild_guess,  \* main's parameter
    auto_solver,       \* main's parameter
    tries,             \* main's `tries`
    \* game_routine
    correct,           \* the word to guess
    words,             \* game_routine's `words`
    aliased,           \* game_routine's `words` is still main's list object
    guess,             \* the current guess
    state,             \* match_check's full-match flag
    hints,             \* match_check's hint string
    counter,           \* the guess counter
    correct_letters,   \* letters guessed that are in the word, sorted
    wrong_letters,     \* letters guessed that are not in the word, sorted
    pc                 \* "main", "AwaitingGuess", "Scored", "Won",
                       \* "Raised", "Done"; "idle" outside a session

fnvars == <<fn, in_word, in_guess, in_hints, in_list, ret, ret2, fpc>>
mainvars == <<dictionary, allow_wild_guess, auto_solver, tries>>
roundvars == <<correct, words, aliased, guess, state, hints, counter,
               correct_letters, wrong_letters>>
gamevars == <<mainvars, roundvars, pc>>
vars == <<fnvars, gamevars>>

\* no game session runs
GameIdle ==
    /\ dictionary = <<>> /\ allow_wild_guess = FALSE /\ auto_solver = FALSE
    /\ tries = <<>> /\ correct = <<>> /\ words = <<>> /\ aliased = FALSE
    /\ guess = <<>> /\ state = FALSE /\ hints = <<>> /\ counter = 1
    /\ correct_letters = <<>> /\ wrong_letters = <<>> /\ pc = "idle"

\* no library function is called directly
FnIdle ==
    /\ fn = "none" /\ in_word = <<>> /\ in_guess = <<>> /\ in_hints = <<>>
    /\ in_list = <<>> /\ ret = [err |-> "pending"] /\ ret2 = [err |-> "pending"]
    /\ fpc = "idle"

Pending == [err |-> "pending"]

\* the words of the lists handed to reduce_list and find_words_in_dict
ListWords == StringsOfLen(Letters, 2)

InitScore ==
    /\ fn = "score"
    /\ in_guess \in StringsUpTo(Letters, MaxLen)
    /\ in_word \in StringsUpTo(Letters, MaxLen)
    /\ in_hints = <<>>
    /\ in_list = <<>>

InitFilter ==
    /\ fn = "filter"
    /\ \E n \in 1..MaxLen :
          /\ in_word \in StringsOfLen(Letters, n)
          /\ in_guess \in StringsOfLen(Letters, n)
          /\ in_hints \in StringsOfLen(HintChars \cup {BadHintChar}, n)
    /\ in_list = <<>>

InitReduce ==
    /\ fn = "reduce"
    /\ in_word = <<>>
    /\ in_guess \in ListWords
    /\ in_hints \in StringsOfLen(HintChars \cup {BadHintChar}, 2)
    /\ in_list \in ListsUpTo(ListWords, MaxList)

InitFn ==
    /\ InitScore \/ InitFilter \/ InitReduce
    /\ ret = Pending
    /\ ret2 = Pending
    /\ fpc = "call"
    /\ GameIdle

\* state, hints = match_check(guess, correct)
CallMatchCheck ==
    /\ fn = "score" /\ fpc = "call"
    /\ ret' = match_check(in_guess, in_word)
    /\ fpc' = "returned"
    /\ UNCHANGED <<fn, in_word, in_guess, in_hints, in_list, ret2>>
    /\ UNCHANGED gamevars

\* check_word_vs_guess_and_hints(correct, guess, hints) on the hints that
\* match_check returned, as reduce_list does for the target in game_routine
CallFilterOnTarget ==
    /\ fn = "score" /\ fpc = "returned" /\ ret.err = "none"
    /\ in_hints' = ret.hints
    /\ ret2' = [err |-> "none",
                value |-> check_word_vs_guess_and_hints(in_word, in_guess, ret.hints)]
    /\ fpc' = "again"
    /\ UNCHANGED <<fn, in_word, in_guess, in_list, ret>>
    /\ UNCHANGED gamevars

\* check_word_vs_guess_and_hints(word, guess, hints)
CallFilter ==
    /\ fn = "filter" /\ fpc = "call"
    /\ ret' = [err |-> "none",
               value |-> check_word_vs_guess_and_hints(in_word, in_guess, in_hints)]
    /\ fpc' = "returned"
    /\ UNCHANGED <<fn, in_word, in_guess, in_hints, in_list, ret2>>
    /\ UNCHANGED gamevars

\* reduce_list(in_list, guess, hints); the list object passed in is in_list
CallReduce ==
    /\ fn = "reduce" /\ fpc = "call"
    /\ LET r == reduce_list(in_list, in_guess, in_hints) IN
          /\ ret' = [err |-> r.err, out |-> r.out]
          /\ in_list' = r.arg
    /\ fpc' = "returned"
    /\ UNCHANGED <<fn, in_word, in_guess, in_hints, ret2>>
    /\ UNCHANGED gamevars

\* reduce_list(reduce_list(in_list, guess, hints), guess, hints)
CallReduceAgain ==
    /\ fn = "reduce" /\ fpc = "returned" /\ ret.err = "none"
    /\ LET r == reduce_list(ret.out, in_guess, in_hints) IN
          ret2' = [err |-> r.err, out |-> r.out]
    /\ fpc' = "again"
    /\ UNCHANGED <<fn, in_word, in_guess, in_hints, in_list, ret>>
    /\ UNCHANGED gamevars

\* find_words_in_dict([[guess, hints]]) over the dictionary in_list
CallFind ==
    /\ fn = "reduce" /\ fpc = "call"
    /\ LET r == find_words_in_dict(<< <<in_guess, in_hints>> >>, in_list) IN
          ret' = [err |-> "find", out |-> r.words, value |-> r.ret]
    /\ fpc' = "found"
    /\ UNCHANGED <<fn, in_word, in_guess, in_hints, in_list, ret2>>
    /\ UNCHANGED gamevars

NextFn ==
    \/ CallMatchCheck
    \/ CallFilterOnTarget
    \/ CallFilter
    \/ CallReduce
    \/ CallReduceAgain
    \/ CallFind

SpecFn == InitFn /\ [][NextFn]_vars

(* ----------------------------- game_routine ---------------------------- *)
\* the words of a dictionary: two letters each; the auto solver's also have
\* CC, which shares no letter with the others, so that a hint can leave
\* more than one candidate
HumanWords == StringsOfLen(Letters, 2)
AutoWords == HumanWords \cup {<<"C", "C">>}
\* the characters a player types
TypedChars == {"a", "b", "!"}

\* the characters in code point order, for list.sort()
CharOrder == <<"!", "*", "?", "A", "B", "C", "_", "a", "b", "x">>
Ord(c) == CHOOSE i \in 1..Len(CharOrder) : CharOrder[i] = c

\* list(set(l)) followed by sort(): the elements of S in ascending order
RECURSIVE SortedList(_)
SortedList(S) ==
    IF S = {} THEN <<>>
    ELSE LET m == CHOOSE x \in S : \A y \in S : Ord(x) <= Ord(y)
         IN  <<m>> \o SortedList(S \ {m})

\* the loop `for l in guess` and the two dedupe-and-sort statements
TrackLetters(g) ==
    /\ correct_letters' = SortedList(Range(correct_letters)
                              \cup {l \in Range(g) : l \in Range(correct)})
    /\ wrong_letters' = SortedList(Range(wrong_letters)
                              \cup {l \in Range(g) : l \notin Range(correct)})

\* letter tracking, then state, hints = match_check(guess, correct)
Score(g) ==
    /\ guess' = g
    /\ TrackLetters(g)
    /\ LET r == match_check(g, correct) IN
          IF r.err = "none"
          THEN state' = r.state /\ hints' = r.hints /\ pc' = "Scored"
          ELSE state' = state /\ hints' = hints /\ pc' = "Raised"
    /\ UNCHANGED <<correct, words, aliased, counter, mainvars, fnvars>>

\* main: correct = random.choice(words), then game_routine is entered
SelectWord ==
    /\ pc = "main"
    /\ \E w \in Range(dictionary) : correct' = w
    /\ words' = dictionary /\ aliased' = TRUE
    /\ counter' = 1 /\ correct_letters' = <<>> /\ wrong_letters' = <<>>
    /\ guess' = <<>> /\ state' = FALSE /\ hints' = <<>>
    /\ pc' = "AwaitingGuess"
    /\ UNCHANGED <<mainvars, fnvars>>

\* auto solver: guess = random.choice(words), scored
AutoGuess ==
    /\ pc = "AwaitingGuess" /\ auto_solver
    /\ \E g \in Range(words) : Score(g)

\* human: the input has the right length (input_check) and, upper-cased,
\* is accepted: scored
HumanGuess ==
    /\ pc = "AwaitingGuess" /\ ~auto_solver
    /\ \E usr \in StringsOfLen(TypedChars, Len(correct)) :
          /\ allow_wild_guess \/ Upper(usr) \in Range(words)
          /\ Score(Upper(usr))

\* human: "Word is not part of the dictionary!" and `continue`
HumanReprompt ==
    /\ pc = "AwaitingGuess" /\ ~auto_solver
    /\ \E usr \in StringsOfLen(TypedChars, Len(correct)) :
          /\ ~allow_wild_guess /\ Upper(usr) \notin Range(words)
          /\ guess' = Upper(usr)
    /\ UNCHANGED <<correct, words, aliased, state, hints, counter,
                   correct_letters, wrong_letters, pc, mainvars, fnvars>>

\* `if state`: return counter; main appends it to tries
Win ==
    /\ pc = "Scored" /\ state
    /\ tries' = Append(tries, counter)
    /\ pc' = "Won"
    /\ UNCHANGED <<dictionary, allow_wild_guess, auto_solver, roundvars, fnvars>>

\* `else` in auto solver mode: words = reduce_list(words, guess, hints),
\* the exception when nothing is left, counter += 1
AutoContinue ==
    /\ pc = "Scored" /\ ~state /\ auto_solver
    /\ LET r == reduce_list(words, guess, hints) IN
          /\ words' = r.out
          /\ aliased' = FALSE
          /\ dictionary' = IF aliased THEN r.arg ELSE dictionary
          /\ IF r.err # "none" \/ r.out = <<>>
             THEN pc' = "Raised" /\ counter' = counter
             ELSE pc' = "AwaitingGuess" /\ counter' = counter + 1
    /\ UNCHANGED <<allow_wild_guess, auto_solver, tries, correct, guess, state,
                   hints, correct_letters, wrong_letters, fnvars>>

\* `else` in human mode: counter += 1
HumanContinue ==
    /\ pc = "Scored" /\ ~state /\ ~auto_solver
    /\ counter < MaxTries
    /\ counter' = counter + 1
    /\ pc' = "AwaitingGuess"
    /\ UNCHANGED <<mainvars, correct, words, aliased, guess, state, hints,
                   correct_letters, wrong_letters, fnvars>>

\* game_routine has returned: its locals are gone
NoRound ==
    /\ correct' = <<>> /\ words' = <<>> /\ aliased' = FALSE
    /\ guess' = <<>> /\ state' = FALSE /\ hints' = <<>> /\ counter' = 1
    /\ correct_letters' = <<>> /\ wrong_letters' = <<>>

\* main: not auto_solver and yn_prompt("Play again?") answered yes
PlayAgain ==
    /\ pc = "Won" /\ ~auto_solver
    /\ Len(tries) < MaxRounds
    /\ pc' = "main"
    /\ NoRound
    /\ UNCHANGED <<mainvars, fnvars>>

\* main: break and return tries
Quit ==
    /\ pc = "Won"
    /\ pc' = "Done"
    /\ NoRound
    /\ UNCHANGED <<mainvars, fnvars>>

\* main(...) has read the dictionary: equal-length uppercase words
InitSession ==
    /\ auto_solver \in BOOLEAN
    /\ dictionary \in (IF auto_solver THEN ListsUpTo(AutoWords, MaxDict)
                       ELSE ListsUpTo(HumanWords, MaxHumanDict)) \ {<<>>}
    /\ allow_wild_guess \in (IF auto_solver THEN {FALSE} ELSE BOOLEAN)
    /\ tries = <<>>
    /\ correct = <<>> /\ words = <<>> /\ aliased = FALSE
    /\ guess = <<>> /\ state = FALSE /\ hints = <<>> /\ counter = 1
    /\ correct_letters = <<>> /\ wrong_letters = <<>>
    /\ pc = "main"
    /\ FnIdle

\* the program: a game session (main) or a direct call of a library function
Init == InitSession \/ InitFn

Next ==
    \/ SelectWord
    \/ AutoGuess
    \/ HumanGuess
    \/ HumanReprompt
    \/ Win
    \/ AutoContinue
    \/ HumanContinue
    \/ PlayAgain
    \/ Quit
    \/ CallMatchCheck
    \/ CallFilterOnTarget
    \/ CallFilter
    \/ CallReduce
    \/ CallReduceAgain
    \/ CallFind

Spec == Init /\ [][Next]_vars

\* main(auto_solver=True): the solver's loop takes its next step
InitAuto == InitSession /\ auto_solver
NextAuto == SelectWord \/ AutoGuess \/ Win \/ AutoContinue \/ Quit
AutoSpec == InitAuto /\ [][NextAuto]_vars /\ WF_vars(NextAuto)

(* ===================== claims on the library functions ================= *)
\* number of positions of s that satisfy P
Count(s, P(_)) == Cardinality({i \in 1..Len(s) : P(i)})

\* a call of match_check has returned or raised
Scored == fn = "score" /\ fpc \in {"returned", "again"}
SameLength == Len(in_guess) = Len(in_word)
ValidHints(h) == \A i \in 1..Len(h) : h[i] \in HintChars

\* C1: the filter accepts the target under the hints match_check gave for
\* a guess of the target's length: check_word_vs_guess_and_hints(target,
\* guess, match_check(guess, target).hints) is True.
C1_SelfConsistent ==
    (fn = "score" /\ fpc = "again" /\ SameLength) => ret2.value = "True"

\* C1 on a guess with a repeated letter that is marked '?' at one position
\* and '_' at another, the filter having accepted the target
C1_Witness ==
    /\ fn = "score" /\ fpc = "again" /\ SameLength
    /\ \E i, j \in 1..Len(in_guess) :
          /\ in_guess[i] = in_guess[j]
          /\ in_hints[i] = "?" /\ in_hints[j] = "_"
    /\ ret2.value = "True"

C6_LengthMismatchRaises ==
    (Scored /\ ~SameLength) => ret.err # "none"

\* C7: a hint with a character outside {'!','?','_'} makes the filter raise
\* ValueError and never lets find_words_in_dict answer "no words found" (as
\* claimed; the code returns False when an earlier '!' or '?' position
\* already rejects the word).
C7_InvalidHintRaises ==
    /\ (fn = "filter" /\ fpc = "returned" /\ ~ValidHints(in_hints))
           => ret.value = "ValueError"
    /\ (fn = "reduce" /\ fpc = "found" /\ ~ValidHints(in_hints))
           => ret.value # "None"

\* C8: reducing a reduced list again with the same guess and hints over
\* {'!','?','_'} changes nothing.
C8_Idempotent ==
    (fn = "reduce" /\ fpc = "again" /\ ValidHints(in_hints)) =>
        /\ ret2.err = "none"
        /\ ret2.out = ret.out

\* C8 where the first reduction dropped a word and kept two
C8_Witness ==
    /\ fn = "reduce" /\ fpc = "again" /\ ValidHints(in_hints)
    /\ Len(ret.out) >= 2 /\ Len(ret.out) < Len(in_list)

(* ======================= claims on the game loop ======================= *)
\* C2: in auto solver mode the candidate list holds the target at every
\* point of game_routine, so a reduction never empties it and the "no word
\* was found to match anymore" exception is never raised.
C2_TargetStays ==
    auto_solver =>
        /\ pc # "Raised"
        /\ pc \in {"AwaitingGuess", "Scored", "Won"} =>
              (correct \in Range(words) /\ words # <<>>)

\* C2 after two reductions, the second of which left the target alone
C2_Witness ==
    /\ auto_solver /\ pc = "AwaitingGuess" /\ counter = 3
    /\ words = <<correct>>

\* the last number main appended to tries
LastTry == tries[Len(tries)]

\* C3: in auto solver mode every non-winning guess is removed from the
\* candidate list by the reduction that follows it, the list shrinks on
\* every turn, the counter never exceeds the size of the dictionary, and the
\* game is won and main returns.
C3_WonWithinDictionarySize ==
    /\ [](counter <= Len(dictionary))
    /\ [](pc = "Won" => (LastTry = counter /\ LastTry <= Len(dictionary)))
    /\ [][(pc = "Scored" /\ ~state) =>
             (guess \notin Range(words') /\ Len(words') < Len(words))]_vars
    /\ <>(pc = "Done" /\ Len(tries) = 1)

\* C3 where the solver needed as many guesses as the dictionary has words,
\* three or more
C3_Witness ==
    /\ auto_solver /\ pc = "Won"
    /\ counter = Len(dictionary) /\ counter >= 3

\* the words of the list l that the filter accepts, in their order
Kept(l, g, h) ==
    SelectSeq(l, LAMBDA w : check_word_vs_guess_and_hints(w, g, h) = "True")

\* C9: reduce_list returns exactly the words of its input that the filter
\* accepts, in their order, and leaves the input list as it was; the
\* dictionary main holds never changes.
C9_ReduceFrame ==
    [][/\ dictionary' = dictionary
       /\ (pc = "Scored" /\ pc' = "AwaitingGuess" /\ auto_solver)
              => words' = Kept(words, guess, hints)
       /\ (fn = "reduce" /\ fpc = "call" /\ fpc' = "returned")
              => /\ in_list' = in_list
                 /\ ret'.err = "none" => ret'.out = Kept(in_list, in_guess, in_hints)
      ]_vars

\* C9 after the solver's first reduction dropped a word of main's
\* dictionary and kept two
C9_Witness ==
    /\ auto_solver /\ pc = "AwaitingGuess" /\ counter = 2
    /\ Len(words) = 2 /\ Len(dictionary) = 3
    /\ words[1] # words[2]

\* C10: game_routine is won exactly by a scored guess that equals the
\* target, and returns the counter (as claimed; the code also takes a guess
\* made of '!' and letters in their place for a full match).
C10_WonOnTarget ==
    /\ pc = "Scored" => (state <=> guess = correct)
    /\ pc = "Won" => (guess = correct /\ LastTry = counter)

\* the second half of C10, which holds: a guess outside the dictionary is
\* asked again and changes neither the counter, the word list nor the
\* tracked letters
RepromptFrame ==
    [][(pc = "AwaitingGuess" /\ ~auto_solver /\ ~allow_wild_guess
            /\ guess' \notin Range(words))
          => UNCHANGED <<counter, words, dictionary, correct_letters,
                         wrong_letters, pc, tries>>]_vars

(* ============ claims on the filter against its specification ========== *)
\* The three-pass filter of the specification (Constraint Filter): w the
\* candidate, u its unconsumed letters, g the guess, h the hints.
\* Pass over the '!' positions: the letters must agree, the position is consumed.
RECURSIVE BangPass(_, _, _, _)
BangPass(u, g, h, i) ==
    IF i > Len(h) THEN [ok |-> TRUE, u |-> u]
    ELSE IF h[i] = "!"
         THEN IF g[i] = u[i] THEN BangPass(replace_char("*", u, i), g, h, i + 1)
              ELSE [ok |-> FALSE, u |-> u]
    ELSE BangPass(u, g, h, i + 1)

\* Pass over the '?' positions: the candidate's letter there differs, and
\* one unconsumed occurrence of the guess letter is consumed.
RECURSIVE QuestionPass(_, _, _, _, _)
QuestionPass(w, u, g, h, i) ==
    IF i > Len(h) THEN [ok |-> TRUE, u |-> u]
    ELSE IF h[i] = "?"
         THEN IF w[i] = g[i] \/ g[i] \notin Range(u) THEN [ok |-> FALSE, u |-> u]
              ELSE QuestionPass(w, StrReplaceFirst(u, g[i], "*"), g, h, i + 1)
    ELSE QuestionPass(w, u, g, h, i + 1)

\* Pass over the '_' positions: the guess letter is not among the
\* unconsumed letters.
UnderscorePass(u, g, h) ==
    \A i \in 1..Len(h) : h[i] = "_" => g[i] \notin Range(u)

ThreePassFilter(w, g, h) ==
    LET b == BangPass(w, g, h, 1) IN
    IF ~b.ok THEN "False"
    ELSE LET q == QuestionPass(w, b.u, g, h, 1) IN
         IF ~q.ok THEN "False"
         ELSE IF UnderscorePass(q.u, g, h) THEN "True" ELSE "False"

\* a '_' position stands to the left of a '?' position for the same letter
UnderscoreLeftOfQuestion(g, h) ==
    \E i, j \in 1..Len(h) : i < j /\ h[i] = "_" /\ h[j] = "?" /\ g[i] = g[j]

\* a call of the filter with hints over {'!','?','_'} has returned
Filtered == fn = "filter" /\ fpc = "returned" /\ ValidHints(in_hints)

\* C11 (as claimed): the filter returns what the three-pass filter of the
\* specification returns, for every candidate, guess and hint over
\* {'!','?','_'} of equal length.
C11_SameAsThreePass ==
    Filtered => ret.value = ThreePassFilter(in_word, in_guess, in_hints)

\* C11 (amended): the filter returns what the three-pass filter returns
\* whenever no '_' position stands to the left of a '?' position for the
\* same letter; where one does, the filter judges the '_' first, in its one
\* left-to-right pass over '?' and '_', and returns False.
C11_SameUnlessUnderscoreFirst ==
    Filtered =>
        IF UnderscoreLeftOfQuestion(in_guess, in_hints)
        THEN ret.value = "False"
        ELSE ret.value = ThreePassFilter(in_word, in_guess, in_hints)

\* C11 where both '?' and '_' stand on one letter of the guess, '?' first,
\* both filters consume for the '?' and both accept
C11_Witness ==
    /\ Filtered
    /\ ~UnderscoreLeftOfQuestion(in_guess, in_hints)
    /\ \E i, j \in 1..Len(in_hints) :
          i < j /\ in_hints[i] = "?" /\ in_hints[j] = "_" /\ in_guess[i] = in_guess[j]
    /\ ret.value = "True"
    /\ ThreePassFilter(in_word, in_guess, in_hints) = "True"

\* the hint string match_check gives the guess g against the word w
TrueHints(g, w) == match_check(g, w).hints

\* C12: the filter is exact: it returns True exactly when match_check gives
\* the guess the hint h against the candidate (as claimed; the code also
\* accepts a candidate that has the guessed letter at a position marked
\* '_', once an earlier '?' has consumed that letter).
C12_FilterExact ==
    Filtered =>
        (ret.value = "True" <=> TrueHints(in_guess, in_word) = in_hints)

====
